---- MODULE Spec2Model ----
(***************************************************************************)
(* predict_with_rf.py: two NPS predictors (random forest on "models",      *)
(* gradient boosting on "skynet_model") and the interactive entry point    *)
(* main.  Each predictor call is modelled statement by statement: the      *)
(* directory check, the three joblib loads, the input dictionary and       *)
(* DataFrame, the column selection, scaler.transform and model.predict.    *)
(* The filesystem is shared state that an external training process may    *)
(* rewrite at any moment.                                                   *)
(***************************************************************************)
EXTENDS Integers, Sequences, FiniteSets, TLC

VARIABLES
    fs,             \* the two artifact paths: kind of the path, the three files
    writes,         \* number of external modifications of the filesystem so far
    pc,             \* per predictor: the statement its activation is at
    kwargs,         \* per predictor: the call as supplied, a sequence of <<name, value>>
    args,           \* per predictor: the six parameters as bound
    feature_names,  \* per predictor: local feature_names
    scaler,         \* per predictor: local scaler
    model,          \* per predictor: local rf_model / skynet_model
    df,             \* per predictor: local df
    scaled_data,    \* per predictor: local scaled_data
    out,            \* per predictor: how the call ended (value returned or exception raised)
    log,            \* per predictor: the library calls the activation has made, in order
    snap,           \* per predictor: its artifact path as it was when the call began
    dirty,          \* per predictor: its artifact path was rewritten during the call
    prev,           \* the last completed call: predictor, artifacts, arguments, outcome
    mpc,            \* main: the statement it is at
    stdin,          \* main: the lines of text typed so far
    parsed,         \* main: the values float() has produced so far
    stdout          \* main: the messages printed so far

vars == <<fs, writes, pc, kwargs, args, feature_names, scaler, model, df,
          scaled_data, out, log, snap, dirty, prev, mpc, stdin, parsed, stdout>>

callVars == <<pc, kwargs, args, feature_names, scaler, model, df,
              scaled_data, out, log, snap, dirty>>

(***************************************************************************)
(* Bounds                                                                  *)
(***************************************************************************)
MaxWrites == 1

(***************************************************************************)
(* Names                                                                   *)
(***************************************************************************)
Predictors == {"rf", "skynet"}

\* The parameters of both predictors, in declaration order.
Params == << "preDefectCount", "preClosedDefectCount", "preResolvedDefectCount",
             "preTrialDefectCount", "preClosedTrialDefectCount",
             "preResolvedTrialDefectCount" >>

NParams == Len(Params)

\* The keys of input_data, in insertion order.  The source's keys are the
\* Chinese feature names; each is written here as an ASCII token:
\*   defect                <-> 上市前缺陷数
\*   closed_defect         <-> 上市前已关闭缺陷数
\*   resolved_defect       <-> 上市前已解决缺陷数
\*   trial_defect          <-> 上市前试用缺陷数
\*   closed_trial_defect   <-> 上市前已关闭试用缺陷数
\*   resolved_trial_defect <-> 上市前已解决试用缺陷数
InputKeys == << "defect", "closed_defect", "resolved_defect",
                "trial_defect", "closed_trial_defect", "resolved_trial_defect" >>

ArtifactDir(p) == IF p = "rf" THEN "models" ELSE "skynet_model"

Dirs == {"models", "skynet_model"}

FeatureNamesFile == "feature_names.joblib"
ScalerFile == "scaler.joblib"
ModelFile(p) == IF p = "rf" THEN "random_forest.joblib" ELSE "gradient_boosting.joblib"

PredictorOf(d) == IF d = "models" THEN "rf" ELSE "skynet"

FilesOf(d) == {FeatureNamesFile, ScalerFile, ModelFile(PredictorOf(d))}

None == [type |-> "None"]

Range(s) == {s[i] : i \in 1..Len(s)}

(***************************************************************************)
(* Exceptions: the classes that occur, each with its base classes.         *)
(***************************************************************************)
Bases(cls) ==
    CASE cls = "FileNotFoundError"  -> {"FileNotFoundError", "OSError", "Exception"}
      [] cls = "NotADirectoryError" -> {"NotADirectoryError", "OSError", "Exception"}
      [] cls = "KeyError"           -> {"KeyError", "LookupError", "Exception"}
      [] cls = "ValueError"         -> {"ValueError", "Exception"}
      [] cls = "TypeError"          -> {"TypeError", "Exception"}
      [] OTHER                      -> {"Exception"}

IsInstance(exc, cls) == cls \in Bases(exc.cls)

Raise(cls, what, cause) == [kind |-> "raise", cls |-> cls, what |-> what, cause |-> cause]
Return(v) == [kind |-> "return", value |-> v]

(***************************************************************************)
(* Artifacts.  A file of an artifact directory is missing, corrupt, or     *)
(* holds a serialized object.  Scalers and models are opaque objects: all  *)
(* the program uses of them is transform and predict, which either raise   *)
(* or compute.  A scaler computes x * mul + add on every column; a model   *)
(* computes bias + the position-weighted sum of its row, so that both the  *)
(* values and the order of the columns show in the prediction.             *)
(***************************************************************************)
Missing == [type |-> "missing"]
Corrupt == [type |-> "corrupt"]

Reverse(s) == [i \in 1..Len(s) |-> s[Len(s) + 1 - i]]

NameList(names) == [type |-> "list", names |-> names]

FeatureLists ==
    { NameList(InputKeys),
      NameList(Reverse(InputKeys)),
      NameList(<< "resolved_defect", "defect", "resolved_defect" >>),
      NameList(<< "defect", "severity" >>) }

Scalers ==
    { [type |-> "scaler", raises |-> "none", mul |-> 2, add |-> 1],
      [type |-> "scaler", raises |-> "none", mul |-> 1, add |-> 3],
      [type |-> "scaler", raises |-> "ValueError", mul |-> 0, add |-> 0] }

Models ==
    { [type |-> "model", raises |-> "none", bias |-> 0, descending |-> FALSE],
      [type |-> "model", raises |-> "none", bias |-> 5, descending |-> TRUE],
      [type |-> "model", raises |-> "TypeError", bias |-> 0, descending |-> FALSE] }

ObjectsFor(f) ==
    IF f = FeatureNamesFile THEN FeatureLists
    ELSE IF f = ScalerFile THEN Scalers
    ELSE Models

IsObject(c) == c.type \in {"list", "scaler", "model"}

\* What the training script leaves in directory d.
Trained(d) ==
    [kind  |-> "dir",
     files |-> [f \in FilesOf(d) |->
        IF f = FeatureNamesFile
        THEN (IF d = "models" THEN NameList(InputKeys) ELSE NameList(Reverse(InputKeys)))
        ELSE IF f = ScalerFile
        THEN (IF d = "models"
              THEN [type |-> "scaler", raises |-> "none", mul |-> 2, add |-> 1]
              ELSE [type |-> "scaler", raises |-> "none", mul |-> 1, add |-> 3])
        ELSE (IF d = "models"
              THEN [type |-> "model", raises |-> "none", bias |-> 0, descending |-> FALSE]
              ELSE [type |-> "model", raises |-> "none", bias |-> 5, descending |-> TRUE])]]

NoPath(d) == [kind |-> "absent", files |-> [f \in FilesOf(d) |-> Missing]]
PlainFile(d) == [kind |-> "file", files |-> [f \in FilesOf(d) |-> Missing]]

(***************************************************************************)
(* Library calls                                                           *)
(***************************************************************************)
\* os.path.exists(path): true of any existing path, directory or not.
PathExists(d) == fs[d].kind # "absent"

\* joblib.load(d + "/" + f) on a path in state st: the object, or the
\* exception that opening or unpickling the file raises.
LoadFrom(st, d, f) ==
    IF st.kind = "absent"
    THEN [ok |-> FALSE, exc |-> Raise("FileNotFoundError", <<d, f>>, None)]
    ELSE IF st.kind = "file"
    THEN [ok |-> FALSE, exc |-> Raise("NotADirectoryError", <<d, f>>, None)]
    ELSE IF st.files[f] = Missing
    THEN [ok |-> FALSE, exc |-> Raise("FileNotFoundError", <<d, f>>, None)]
    ELSE IF st.files[f] = Corrupt
    THEN [ok |-> FALSE, exc |-> Raise("ValueError", <<d, f>>, None)]
    ELSE [ok |-> TRUE, obj |-> st.files[f]]

\* Mutant: an object the predictor's last call found in the file is used
\* again instead of reading the file.
JoblibLoadCached(d, f) ==
    IF /\ prev # None
       /\ prev.p = PredictorOf(d)
       /\ prev.snap.kind = "dir"
       /\ IsObject(prev.snap.files[f])
    THEN [ok |-> TRUE, obj |-> prev.snap.files[f]]
    ELSE LoadFrom(fs[d], d, f)

\* joblib.load reads the file as it is now.
JoblibLoad(d, f) == LoadFrom(fs[d], d, f)

\* Binding of a call's named arguments to the parameters.
Bind(kw) ==
    [n \in Range(Params) |-> kw[CHOOSE i \in 1..Len(kw) : kw[i][1] = n][2]]

\* input_data, a dict: its items in insertion order.
InputData(a) ==
    [i \in 1..NParams |-> [name |-> InputKeys[i], value |-> a[Params[i]]]]

\* pd.DataFrame([input_data]): one row, the columns in the dict's order.
DataFrame(d) == [type |-> "frame", cols |-> d]

ColumnNames(frame) == {frame.cols[i].name : i \in 1..Len(frame.cols)}

Column(frame, name) ==
    frame.cols[CHOOSE i \in 1..Len(frame.cols) : frame.cols[i].name = name]

\* Mutant: the names are checked but the columns keep the dict's order.
SelectColumnsUnordered(frame, names) ==
    IF \E i \in 1..Len(names) : names[i] \notin ColumnNames(frame)
    THEN [ok |-> FALSE,
          exc |-> Raise("KeyError",
                        {names[i] : i \in 1..Len(names)} \ ColumnNames(frame), None)]
    ELSE [ok |-> TRUE, obj |-> frame]

\* Mutant: a name that is no column yields a null column (as reindex does).
SelectColumnsReindex(frame, names) ==
    [ok |-> TRUE,
     obj |-> [type |-> "frame",
              cols |-> [i \in 1..Len(names) |->
                  IF names[i] \in ColumnNames(frame)
                  THEN Column(frame, names[i])
                  ELSE [name |-> names[i], value |-> 0]]]]

\* df[feature_names]: the named columns in the list's order, or KeyError
\* when a name is no column of df.
SelectColumns(frame, names) ==
    IF \E i \in 1..Len(names) : names[i] \notin ColumnNames(frame)
    THEN [ok |-> FALSE,
          exc |-> Raise("KeyError",
                        {names[i] : i \in 1..Len(names)} \ ColumnNames(frame), None)]
    ELSE [ok |-> TRUE,
          obj |-> [type |-> "frame",
                   cols |-> [i \in 1..Len(names) |-> Column(frame, names[i])]]]

\* scaler.transform(df): an array, the column names dropped.
Transform(sc, frame) ==
    IF sc.raises # "none"
    THEN [ok |-> FALSE, exc |-> Raise(sc.raises, "transform", None)]
    ELSE [ok |-> TRUE,
          obj |-> [type |-> "array",
                   row |-> [i \in 1..Len(frame.cols) |->
                               frame.cols[i].value * sc.mul + sc.add]]]

RECURSIVE WeightedSum(_, _, _)
WeightedSum(row, i, descending) ==
    IF i > Len(row) THEN 0
    ELSE (IF descending THEN Len(row) + 1 - i ELSE i) * row[i]
         + WeightedSum(row, i + 1, descending)

\* model.predict(scaled_data): one prediction per row.
Predict(m, arr) ==
    IF m.raises # "none"
    THEN [ok |-> FALSE, exc |-> Raise(m.raises, "predict", None)]
    ELSE [ok |-> TRUE, obj |-> << m.bias + WeightedSum(arr.row, 1, m.descending) >>]

(***************************************************************************)
(* A predictor call, statement by statement.  p is "rf" for                *)
(* predict_nps_with_rf and "skynet" for predict_nps_with_skynet; the two  *)
(* functions differ in ArtifactDir(p) and ModelFile(p) only.               *)
(***************************************************************************)
Event(op, target, seen) == [op |-> op, target |-> target, seen |-> seen]

Logged(p, e) == log' = [log EXCEPT ![p] = Append(@, e)]

InCall(p) == pc[p] \notin {"idle", "done"}

\* The call leaves the function: by return, or by an exception propagating.
Leave(p, outcome) ==
    /\ pc' = [pc EXCEPT ![p] = "done"]
    /\ out' = [out EXCEPT ![p] = outcome]

Goto(p, label) ==
    /\ pc' = [pc EXCEPT ![p] = label]
    /\ UNCHANGED out

\* Mutant: the failure of a load propagates as it is.
WrapLoadErrorBare(e) == e

\* except Exception as e: raise Exception(f"...: {e}")
WrapLoadError(e) == Raise("Exception", "load", e)

\* The function is entered with the arguments kw.
Call(p, kw) ==
    /\ pc[p] = "idle"
    /\ pc' = [pc EXCEPT ![p] = "exists"]
    /\ kwargs' = [kwargs EXCEPT ![p] = kw]
    /\ args' = [args EXCEPT ![p] = Bind(kw)]
    /\ log' = [log EXCEPT ![p] = << >>]
    /\ snap' = [snap EXCEPT ![p] = fs[ArtifactDir(p)]]
    /\ dirty' = [dirty EXCEPT ![p] = FALSE]
    /\ UNCHANGED <<fs, writes, feature_names, scaler, model, df, scaled_data, out>>

\* if not os.path.exists(dir): raise FileNotFoundError(...)
CheckDir(p) ==
    /\ pc[p] = "exists"
    /\ Logged(p, Event("exists", ArtifactDir(p), fs[ArtifactDir(p)].kind))
    /\ IF ~PathExists(ArtifactDir(p))
       THEN Leave(p, Raise("FileNotFoundError", ArtifactDir(p), None))
       ELSE Goto(p, "load_feature_names")
    /\ UNCHANGED <<fs, writes, kwargs, args, feature_names, scaler, model, df,
                   scaled_data, snap, dirty>>

\* feature_names = joblib.load(dir/feature_names.joblib)
LoadFeatureNames(p) ==
    /\ pc[p] = "load_feature_names"
    /\ LET r == JoblibLoad(ArtifactDir(p), FeatureNamesFile) IN
        /\ Logged(p, Event("load", <<ArtifactDir(p), FeatureNamesFile>>,
                           IF r.ok THEN r.obj ELSE r.exc))
        /\ IF r.ok
           THEN /\ feature_names' = [feature_names EXCEPT ![p] = r.obj]
                /\ Goto(p, "load_scaler")
           ELSE /\ Leave(p, WrapLoadError(r.exc))
                /\ UNCHANGED feature_names
    /\ UNCHANGED <<fs, writes, kwargs, args, scaler, model, df, scaled_data, snap, dirty>>

\* Mutant: both predictors read the scaler of "models".
LoadScalerOfModels(p) ==
    /\ pc[p] = "load_scaler"
    /\ LET r == JoblibLoad("models", ScalerFile) IN
        /\ Logged(p, Event("load", <<ArtifactDir(p), ScalerFile>>,
                           IF r.ok THEN r.obj ELSE r.exc))
        /\ IF r.ok
           THEN /\ scaler' = [scaler EXCEPT ![p] = r.obj]
                /\ Goto(p, "load_model")
           ELSE /\ Leave(p, WrapLoadError(r.exc))
                /\ UNCHANGED scaler
    /\ UNCHANGED <<fs, writes, kwargs, args, feature_names, model, df, scaled_data,
                   snap, dirty>>

\* scaler = joblib.load(dir/scaler.joblib)
LoadScaler(p) ==
    /\ pc[p] = "load_scaler"
    /\ LET r == JoblibLoad(ArtifactDir(p), ScalerFile) IN
        /\ Logged(p, Event("load", <<ArtifactDir(p), ScalerFile>>,
                           IF r.ok THEN r.obj ELSE r.exc))
        /\ IF r.ok
           THEN /\ scaler' = [scaler EXCEPT ![p] = r.obj]
                /\ Goto(p, "load_model")
           ELSE /\ Leave(p, WrapLoadError(r.exc))
                /\ UNCHANGED scaler
    /\ UNCHANGED <<fs, writes, kwargs, args, feature_names, model, df, scaled_data,
                   snap, dirty>>

\* rf_model = joblib.load(dir/random_forest.joblib), or the skynet model
LoadModel(p) ==
    /\ pc[p] = "load_model"
    /\ LET r == JoblibLoad(ArtifactDir(p), ModelFile(p)) IN
        /\ Logged(p, Event("load", <<ArtifactDir(p), ModelFile(p)>>,
                           IF r.ok THEN r.obj ELSE r.exc))
        /\ IF r.ok
           THEN /\ model' = [model EXCEPT ![p] = r.obj]
                /\ Goto(p, "input_data")
           ELSE /\ Leave(p, WrapLoadError(r.exc))
                /\ UNCHANGED model
    /\ UNCHANGED <<fs, writes, kwargs, args, feature_names, scaler, df, scaled_data,
                   snap, dirty>>

\* input_data = {...}; df = pd.DataFrame([input_data])
BuildFrame(p) ==
    /\ pc[p] = "input_data"
    /\ df' = [df EXCEPT ![p] = DataFrame(InputData(args[p]))]
    /\ Goto(p, "select")
    /\ UNCHANGED <<fs, writes, kwargs, args, feature_names, scaler, model,
                   scaled_data, log, snap, dirty>>

\* df = df[feature_names]
Reorder(p) ==
    /\ pc[p] = "select"
    /\ LET r == SelectColumns(df[p], feature_names[p].names) IN
        IF r.ok
        THEN /\ df' = [df EXCEPT ![p] = r.obj]
             /\ Goto(p, "transform")
        ELSE /\ Leave(p, r.exc)
             /\ UNCHANGED df
    /\ UNCHANGED <<fs, writes, kwargs, args, feature_names, scaler, model,
                   scaled_data, log, snap, dirty>>

\* Mutant: the frame goes to the model as it is.
ScaleSkipped(p) ==
    /\ pc[p] = "transform"
    /\ scaled_data' = [scaled_data EXCEPT ![p] =
          [type |-> "array",
           row |-> [i \in 1..Len(df[p].cols) |-> df[p].cols[i].value]]]
    /\ Goto(p, "predict")
    /\ UNCHANGED <<fs, writes, kwargs, args, feature_names, scaler, model, df,
                   log, snap, dirty>>

\* scaled_data = scaler.transform(df)
Scale(p) ==
    /\ pc[p] = "transform"
    /\ Logged(p, Event("transform", scaler[p], df[p]))
    /\ LET r == Transform(scaler[p], df[p]) IN
        IF r.ok
        THEN /\ scaled_data' = [scaled_data EXCEPT ![p] = r.obj]
             /\ Goto(p, "predict")
        ELSE /\ Leave(p, r.exc)
             /\ UNCHANGED scaled_data
    /\ UNCHANGED <<fs, writes, kwargs, args, feature_names, scaler, model, df,
                   snap, dirty>>

\* prediction = model.predict(scaled_data)[0]; return prediction
PredictAndReturn(p) ==
    /\ pc[p] = "predict"
    /\ Logged(p, Event("predict", model[p], scaled_data[p]))
    /\ LET r == Predict(model[p], scaled_data[p]) IN
        IF r.ok
        THEN Leave(p, Return(r.obj[1]))
        ELSE Leave(p, r.exc)
    /\ UNCHANGED <<fs, writes, kwargs, args, feature_names, scaler, model, df,
                   scaled_data, snap, dirty>>

\* The caller has the outcome; the activation's locals are gone.
Finish(p) ==
    /\ pc[p] = "done"
    /\ pc' = [pc EXCEPT ![p] = "idle"]
    /\ kwargs' = [kwargs EXCEPT ![p] = << >>]
    /\ args' = [args EXCEPT ![p] = None]
    /\ feature_names' = [feature_names EXCEPT ![p] = None]
    /\ scaler' = [scaler EXCEPT ![p] = None]
    /\ model' = [model EXCEPT ![p] = None]
    /\ df' = [df EXCEPT ![p] = None]
    /\ scaled_data' = [scaled_data EXCEPT ![p] = None]
    /\ out' = [out EXCEPT ![p] = None]
    /\ log' = [log EXCEPT ![p] = << >>]
    /\ snap' = [snap EXCEPT ![p] = None]
    /\ dirty' = [dirty EXCEPT ![p] = FALSE]
    /\ UNCHANGED <<fs, writes>>

(***************************************************************************)
(* The environment: the training scripts and whoever else writes the two   *)
(* paths.  The program never writes them.                                  *)
(***************************************************************************)
Rewrite(d, new) ==
    /\ writes < MaxWrites
    /\ new # fs[d]
    /\ fs' = [fs EXCEPT ![d] = new]
    /\ writes' = writes + 1
    /\ dirty' = [dirty EXCEPT ![PredictorOf(d)] = @ \/ InCall(PredictorOf(d))]
    /\ UNCHANGED <<pc, kwargs, args, feature_names, scaler, model, df,
                   scaled_data, out, log, snap>>

Train(d) == fs[d].kind # "dir" /\ Rewrite(d, Trained(d))

RemoveDir(d) == fs[d].kind = "dir" /\ Rewrite(d, NoPath(d))

PutPlainFile(d) == fs[d].kind = "absent" /\ Rewrite(d, PlainFile(d))

DeleteFile(d, f) ==
    /\ fs[d].kind = "dir"
    /\ Rewrite(d, [fs[d] EXCEPT !.files[f] = Missing])

CorruptFile(d, f) ==
    /\ fs[d].kind = "dir"
    /\ Rewrite(d, [fs[d] EXCEPT !.files[f] = Corrupt])

WriteArtifact(d, f, obj) ==
    /\ fs[d].kind = "dir"
    /\ Rewrite(d, [fs[d] EXCEPT !.files[f] = obj])

(***************************************************************************)
(* The calls a client of the two tools makes.                              *)
(***************************************************************************)
InOrder(v) == [i \in 1..NParams |-> << Params[i], v[i] >>]

\* A call names its arguments, in any order.
KwargCalls ==
    { InOrder(<< 1, 2, 3, 4, 5, 6 >>), Reverse(InOrder(<< 2, 2, 1, 1, 0, 3 >>)) }

\* The training scripts have been run, or not yet.
InitFsStates == { [d \in Dirs |-> Trained(d)], [d \in Dirs |-> NoPath(d)] }

InitCommon ==
    /\ fs \in InitFsStates
    /\ writes = 0
    /\ pc = [p \in Predictors |-> "idle"]
    /\ kwargs = [p \in Predictors |-> << >>]
    /\ args = [p \in Predictors |-> None]
    /\ feature_names = [p \in Predictors |-> None]
    /\ scaler = [p \in Predictors |-> None]
    /\ model = [p \in Predictors |-> None]
    /\ df = [p \in Predictors |-> None]
    /\ scaled_data = [p \in Predictors |-> None]
    /\ out = [p \in Predictors |-> None]
    /\ log = [p \in Predictors |-> << >>]
    /\ snap = [p \in Predictors |-> None]
    /\ dirty = [p \in Predictors |-> FALSE]
    /\ prev = None
    /\ stdin = << >>
    /\ parsed = << >>
    /\ stdout = << >>

\* The tool server: main is not running.
Init == InitCommon /\ mpc = "off"

others == <<prev, mpc, stdin, parsed, stdout>>

ToolCall == (\E p \in Predictors, kw \in KwargCalls : Call(p, kw)) /\ UNCHANGED others
StepCheckDir == (\E p \in Predictors : CheckDir(p)) /\ UNCHANGED others
StepLoadFeatureNames == (\E p \in Predictors : LoadFeatureNames(p)) /\ UNCHANGED others
StepLoadScaler == (\E p \in Predictors : LoadScaler(p)) /\ UNCHANGED others
StepLoadModel == (\E p \in Predictors : LoadModel(p)) /\ UNCHANGED others
StepBuildFrame == (\E p \in Predictors : BuildFrame(p)) /\ UNCHANGED others
StepReorder == (\E p \in Predictors : Reorder(p)) /\ UNCHANGED others
StepScale == (\E p \in Predictors : Scale(p)) /\ UNCHANGED others
StepPredict == (\E p \in Predictors : PredictAndReturn(p)) /\ UNCHANGED others
ToolReturn == (\E p \in Predictors : Finish(p)) /\ UNCHANGED others

EnvTrain == (\E d \in Dirs : Train(d)) /\ UNCHANGED others
EnvRemoveDir == (\E d \in Dirs : RemoveDir(d)) /\ UNCHANGED others
EnvPutPlainFile == (\E d \in Dirs : PutPlainFile(d)) /\ UNCHANGED others
EnvDeleteFile ==
    (\E d \in Dirs : \E f \in FilesOf(d) : DeleteFile(d, f)) /\ UNCHANGED others
EnvCorruptFile ==
    (\E d \in Dirs : \E f \in FilesOf(d) : CorruptFile(d, f)) /\ UNCHANGED others
EnvWriteArtifact ==
    /\ \E d \in Dirs : \E f \in FilesOf(d) : \E obj \in ObjectsFor(f) :
          WriteArtifact(d, f, obj)
    /\ UNCHANGED others

\* The tool server: calls of the two tools, interleaved, while the
\* environment rewrites the artifact paths.
Next ==
    \/ ToolCall
    \/ StepCheckDir
    \/ StepLoadFeatureNames
    \/ StepLoadScaler
    \/ StepLoadModel
    \/ StepBuildFrame
    \/ StepReorder
    \/ StepScale
    \/ StepPredict
    \/ ToolReturn
    \/ EnvTrain
    \/ EnvRemoveDir
    \/ EnvPutPlainFile
    \/ EnvDeleteFile
    \/ EnvCorruptFile
    \/ EnvWriteArtifact

Spec == Init /\ [][Next]_vars

\* Calls made one after the other, each remembered when it is over.
RepeatCall ==
    /\ \A q \in Predictors : pc[q] = "idle"
    /\ \E p \in Predictors, kw \in KwargCalls : Call(p, kw)
    /\ UNCHANGED others

RepeatReturn ==
    /\ \E p \in Predictors :
          /\ Finish(p)
          /\ prev' = [p |-> p, snap |-> snap[p], kw |-> kwargs[p],
                      out |-> out[p], dirty |-> dirty[p]]
    /\ UNCHANGED <<mpc, stdin, parsed, stdout>>

NextRepeat ==
    \/ RepeatCall
    \/ StepCheckDir
    \/ StepLoadFeatureNames
    \/ StepLoadScaler
    \/ StepLoadModel
    \/ StepBuildFrame
    \/ StepReorder
    \/ StepScale
    \/ StepPredict
    \/ RepeatReturn
    \/ EnvTrain
    \/ EnvRemoveDir
    \/ EnvPutPlainFile
    \/ EnvDeleteFile
    \/ EnvCorruptFile
    \/ EnvWriteArtifact

SpecRepeat == Init /\ [][NextRepeat]_vars

(***************************************************************************)
(* main: the interactive entry point.  A line of input is a sequence of    *)
(* characters over digits, the two signs, the blank and the letters a, b,  *)
(* c; on such text float() accepts exactly an optionally signed run of      *)
(* digits with blanks around it.                                            *)
(***************************************************************************)
DigitChars == << "0", "1", "2", "3", "4", "5", "6", "7", "8", "9" >>

IsDigit(c) == c \in Range(DigitChars)

DigitValue(c) == (CHOOSE i \in 1..Len(DigitChars) : DigitChars[i] = c) - 1

RECURSIVE StripLeft(_)
StripLeft(t) == IF t # << >> /\ Head(t) = " " THEN StripLeft(Tail(t)) ELSE t

RECURSIVE StripRight(_)
StripRight(t) ==
    IF t # << >> /\ t[Len(t)] = " " THEN StripRight(SubSeq(t, 1, Len(t) - 1)) ELSE t

RECURSIVE ParseDigits(_, _)
ParseDigits(t, acc) ==
    IF t = << >> THEN [ok |-> TRUE, value |-> acc]
    ELSE IF IsDigit(Head(t)) THEN ParseDigits(Tail(t), 10 * acc + DigitValue(Head(t)))
    ELSE [ok |-> FALSE]

\* Mutant: text that is no number reads as zero.
FloatLenient(text) ==
    LET t == StripRight(StripLeft(text))
        signed == t # << >> /\ Head(t) \in {"-", "+"}
        r == ParseDigits(IF signed THEN Tail(t) ELSE t, 0)
    IN  IF r.ok
        THEN [ok |-> TRUE, obj |-> IF signed /\ Head(t) = "-" THEN 0 - r.value ELSE r.value]
        ELSE [ok |-> TRUE, obj |-> 0]

\* float(text)
Float(text) ==
    LET t == StripRight(StripLeft(text))
        signed == t # << >> /\ Head(t) \in {"-", "+"}
        body == IF signed THEN Tail(t) ELSE t
        r == ParseDigits(body, 0)
    IN  IF body # << >> /\ r.ok
        THEN [ok |-> TRUE, obj |-> IF Head(t) = "-" THEN 0 - r.value ELSE r.value]
        ELSE [ok |-> FALSE, exc |-> Raise("ValueError", text, None)]

\* f"{prediction:.2f}" of a whole number.
Format2f(v) == [whole |-> v, decimals |-> << 0, 0 >>]

Printed(lines) == stdout' = stdout \o lines

\* The handlers of main's try, in order: except ValueError, except Exception.
Handle(exc) ==
    IF IsInstance(exc, "ValueError") THEN [msg |-> "invalid_number"]
    ELSE [msg |-> "failed", error |-> exc]

\* Mutant: the second and third arguments change places.
MainArgumentsSwapped(v) ==
    InOrder(<< v[1], v[3], v[2], v[4], v[5], v[6] >>)

\* predict_nps_with_rf(preDefectCount, ..., preResolvedTrialDefectCount)
MainArguments(v) == InOrder(v)

\* The lines of text a user may type at a prompt.
InputTexts ==
    { << "7" >>, << " ", "-", "1", "2", " " >>,
      << "a", "b", "c" >>, << "1", " ", "2" >>, << >> }

\* print("=" * 50) ... print("\n...:")
MainBanner ==
    /\ mpc = "start"
    /\ Printed(<< [msg |-> "banner"], [msg |-> "header"] >>)
    /\ mpc' = "input"
    /\ UNCHANGED <<fs, writes, callVars, prev, stdin, parsed>>

\* x = float(input(prompt)), for the next of the six fields
MainInput ==
    /\ mpc = "input"
    /\ Len(parsed) < NParams
    /\ \E text \in InputTexts :
        LET r == Float(text)
            prompt == [msg |-> "prompt", field |-> InputKeys[Len(parsed) + 1]]
        IN  /\ stdin' = Append(stdin, text)
            /\ IF r.ok
               THEN /\ parsed' = Append(parsed, r.obj)
                    /\ Printed(<< prompt >>)
                    /\ mpc' = "input"
               ELSE /\ UNCHANGED parsed
                    /\ Printed(<< prompt, Handle(r.exc) >>)
                    /\ mpc' = "returned"
    /\ UNCHANGED <<fs, writes, callVars, prev>>

\* input() at the end of the input: EOFError
MainInputEof ==
    /\ mpc = "input"
    /\ Len(parsed) < NParams
    /\ Printed(<< [msg |-> "prompt", field |-> InputKeys[Len(parsed) + 1]],
                  Handle(Raise("EOFError", "input", None)) >>)
    /\ mpc' = "returned"
    /\ UNCHANGED <<fs, writes, callVars, prev, stdin, parsed>>

\* prediction = predict_nps_with_rf(...)
MainCall ==
    /\ mpc = "input"
    /\ Len(parsed) = NParams
    /\ Call("rf", MainArguments(parsed))
    /\ mpc' = "waiting"
    /\ UNCHANGED <<prev, stdin, parsed, stdout>>

\* The call is over: the result is printed, or the exception handled.
MainResult ==
    /\ mpc = "waiting"
    /\ pc["rf"] = "done"
    /\ IF out["rf"].kind = "return"
       THEN Printed(<< [msg |-> "result", text |-> Format2f(out["rf"].value)] >>)
       ELSE Printed(<< Handle(out["rf"]) >>)
    /\ mpc' = "returned"
    /\ UNCHANGED <<fs, writes, callVars, prev, stdin, parsed>>

InitMain == InitCommon /\ mpc = "start"

\* The environment of a run of main: what becomes of "models", the one
\* path the run reads.
MainEnvTrain == Train("models") /\ UNCHANGED others
MainEnvRemoveDir == RemoveDir("models") /\ UNCHANGED others
MainEnvPutPlainFile == PutPlainFile("models") /\ UNCHANGED others
MainEnvDeleteFile == (\E f \in FilesOf("models") : DeleteFile("models", f)) /\ UNCHANGED others
MainEnvCorruptFile ==
    (\E f \in FilesOf("models") : CorruptFile("models", f)) /\ UNCHANGED others
MainEnvWriteArtifact ==
    /\ \E f \in FilesOf("models") : \E obj \in ObjectsFor(f) : WriteArtifact("models", f, obj)
    /\ UNCHANGED others

\* One run of main, while the environment rewrites the artifact paths.
NextMain ==
    \/ MainBanner
    \/ MainInput
    \/ MainInputEof
    \/ MainCall
    \/ StepCheckDir
    \/ StepLoadFeatureNames
    \/ StepLoadScaler
    \/ StepLoadModel
    \/ StepBuildFrame
    \/ StepReorder
    \/ StepScale
    \/ StepPredict
    \/ MainResult
    \/ MainEnvTrain
    \/ MainEnvRemoveDir
    \/ MainEnvPutPlainFile
    \/ MainEnvDeleteFile
    \/ MainEnvCorruptFile
    \/ MainEnvWriteArtifact

SpecMain == InitMain /\ [][NextMain]_vars

(***************************************************************************)
(* Properties of a predictor call                                          *)
(***************************************************************************)
Done(p) == pc[p] = "done"

IsRaise(x) == "kind" \in DOMAIN x /\ x.kind = "raise"

Raised(p, cls) == Done(p) /\ IsRaise(out[p]) /\ out[p].cls = cls

Returned(p) == Done(p) /\ out[p] # None /\ out[p].kind = "return"

\* The positions of the log of p that hold calls of op.
Calls(p, op) == {i \in 1..Len(log[p]) : log[p][i].op = op}

\* The order in which the source loads the three artifacts.
LoadOrder(p) ==
    << <<ArtifactDir(p), FeatureNamesFile>>,
       <<ArtifactDir(p), ScalerFile>>,
       <<ArtifactDir(p), ModelFile(p)>> >>

\* What the exists check of p's call found at the path.
KindChecked(p) == log[p][1].seen

\* C1: whenever a predictor's artifact directory does not exist when the
\* call checks for it, the call fails with FileNotFoundError naming the
\* directory and calls nothing else: no load, no transform, no predict.
C1_MissingDirRaisesBeforeAnyRead ==
    \A p \in Predictors :
        (Done(p) /\ KindChecked(p) # "dir") =>
            /\ out[p] = Raise("FileNotFoundError", ArtifactDir(p), None)
            /\ Len(log[p]) = 1

\* C2: when the directory exists, the loads happen in the order feature
\* names, scaler, model; a load that fails is the last call the activation
\* makes, no frame is built, and the call ends with the load error that
\* wraps the failure.
C2_LoadsInOrderAndFailureWrapped ==
    \A p \in Predictors :
        (Len(log[p]) >= 1 /\ KindChecked(p) = "dir") =>
            /\ \A i \in 2..Len(log[p]) :
                  i <= 4 => (log[p][i].op = "load" /\ log[p][i].target = LoadOrder(p)[i - 1])
            /\ \A i \in Calls(p, "load") : i \in 2..4
            /\ \A i \in Calls(p, "load") :
                  IsRaise(log[p][i].seen) =>
                      /\ i = Len(log[p])
                      /\ Done(p)
                      /\ out[p] = Raise("Exception", "load", log[p][i].seen)
                      /\ df[p] = None /\ scaled_data[p] = None

C2_Witness ==
    \E p \in Predictors :
        /\ Done(p)
        /\ Len(log[p]) = 3
        /\ KindChecked(p) = "dir"
        /\ IsRaise(log[p][3].seen)
        /\ model[p] = None

\* The parameter an input_data key takes its value from.
ParamOfKey(name) == Params[CHOOSE i \in 1..NParams : InputKeys[i] = name]

\* The value the caller supplied under a parameter's name.
Supplied(kw, param) == kw[CHOOSE i \in 1..Len(kw) : kw[i][1] = param][2]

Recognized(names) == \A i \in 1..Len(names) : names[i] \in Range(InputKeys)

RowMatches(frame, names, kw) ==
    /\ Len(frame.cols) = Len(names)
    /\ \A i \in 1..Len(names) :
          /\ frame.cols[i].name = names[i]
          /\ frame.cols[i].value = Supplied(kw, ParamOfKey(names[i]))

\* C3: the row handed to the scaler has the columns of the loaded feature
\* name list, in the list's order, each holding the value supplied for the
\* parameter of that name, whatever the list's order and whatever the order
\* the arguments were supplied in; a list of recognized names always gets
\* that far.
C3_RowFollowsFeatureNames ==
    \A p \in Predictors :
        /\ \A i \in Calls(p, "transform") :
              RowMatches(log[p][i].seen, feature_names[p].names, kwargs[p])
        /\ (pc[p] \in {"transform", "predict"}) =>
              RowMatches(df[p], feature_names[p].names, kwargs[p])
        /\ (model[p] # None /\ Recognized(feature_names[p].names) /\ Done(p)) =>
              Calls(p, "transform") # {}

C3_Witness ==
    \E p \in Predictors :
        /\ Calls(p, "transform") # {}
        /\ feature_names[p].names # InputKeys
        /\ kwargs[p][1][1] # Params[1]
        /\ Returned(p)

\* C4: a loaded feature name list with a name outside the six recognized
\* ones never reaches the scaler or the model and never yields a value or a
\* frame with a column the inputs do not fill; once the three artifacts are
\* loaded the call ends with the column selection's KeyError.
C4_UnknownNameFails ==
    \A p \in Predictors :
        (feature_names[p] # None /\ ~Recognized(feature_names[p].names)) =>
            /\ Calls(p, "transform") = {} /\ Calls(p, "predict") = {}
            /\ pc[p] \notin {"transform", "predict"}
            /\ ~Returned(p)
            /\ scaled_data[p] = None
            /\ df[p] # None => df[p] = DataFrame(InputData(Bind(kwargs[p])))
            /\ (Done(p) /\ model[p] # None) => Raised(p, "KeyError")

C4_Witness ==
    \E p \in Predictors :
        /\ Raised(p, "KeyError")
        /\ "severity" \in out[p].what
        /\ df[p] # None

\* What a call of predictor p with arguments kw comes to when its artifact
\* path is in state st throughout: a function of st and kw alone.
Expected(p, st, kw) ==
    LET d == ArtifactDir(p)
        names == LoadFrom(st, d, FeatureNamesFile)
        sc == LoadFrom(st, d, ScalerFile)
        m == LoadFrom(st, d, ModelFile(p))
    IN  IF st.kind = "absent" THEN Raise("FileNotFoundError", d, None)
        ELSE IF ~names.ok THEN Raise("Exception", "load", names.exc)
        ELSE IF ~sc.ok THEN Raise("Exception", "load", sc.exc)
        ELSE IF ~m.ok THEN Raise("Exception", "load", m.exc)
        ELSE LET row == SelectColumns(DataFrame(InputData(Bind(kw))), names.obj.names)
             IN  IF ~row.ok THEN row.exc
                 ELSE LET scaled == Transform(sc.obj, row.obj)
                      IN  IF ~scaled.ok THEN scaled.exc
                          ELSE LET y == Predict(m.obj, scaled.obj)
                               IN  IF ~y.ok THEN y.exc ELSE Return(y.obj[1])

Other(p) == IF p = "rf" THEN "skynet" ELSE "rf"

\* C8: the outcome of a call of one predictor is a function of its own
\* artifact path and its arguments: whatever the other path holds and
\* whatever the other predictor is doing or has done, a call whose own path
\* is not rewritten while it runs ends as Expected says.
C8_OutcomeFromOwnArtifactsOnly ==
    \A p \in Predictors :
        (Done(p) /\ ~dirty[p]) => out[p] = Expected(p, snap[p], kwargs[p])

C8_Witness ==
    \E p \in Predictors :
        /\ Returned(p) /\ ~dirty[p]
        /\ fs[ArtifactDir(Other(p))] # Trained(ArtifactDir(Other(p)))
        /\ Done(Other(p)) /\ IsRaise(out[Other(p)])

\* C10: a call that returns made exactly one transform call and then exactly
\* one predict call, the transform on the loaded scaler with the assembled
\* row, the predict on the loaded model with what that transform gave; the
\* value returned is the first element of the model's answer, unchanged.
C10_ScaleOnceThenPredict ==
    \A p \in Predictors :
        Returned(p) =>
            LET n == Len(log[p])
                t == log[p][n - 1]
                y == log[p][n]
            IN  /\ Calls(p, "transform") = {n - 1}
                /\ Calls(p, "predict") = {n}
                /\ t.target = scaler[p] /\ t.seen = df[p]
                /\ y.target = model[p]
                /\ y.seen = Transform(scaler[p], df[p]).obj
                /\ y.seen.row # [i \in 1..Len(df[p].cols) |-> df[p].cols[i].value]
                /\ out[p].value = Predict(model[p], y.seen).obj[1]

C10_Witness ==
    \E p \in Predictors :
        /\ Returned(p)
        /\ out[p].value = 203
        /\ kwargs[p] = InOrder(<< 1, 2, 3, 4, 5, 6 >>)

\* C9: a call keeps nothing of earlier calls.  Every object it loads is the
\* one its artifact path holds when the call is made, so after the artifacts
\* are replaced the new ones are used; and with the same artifacts and the
\* same arguments as the predictor's previous call, the outcome is the same.
C9_FreshLoadsAndSameOutcome ==
    \A p \in Predictors :
        ~dirty[p] =>
            /\ \A i \in Calls(p, "load") :
                  LET r == LoadFrom(snap[p], log[p][i].target[1], log[p][i].target[2])
                  IN  log[p][i].seen = IF r.ok THEN r.obj ELSE r.exc
            /\ (/\ Done(p)
                /\ prev # None
                /\ prev.p = p
                /\ ~prev.dirty
                /\ prev.snap = snap[p]
                /\ prev.kw = kwargs[p]) => out[p] = prev.out

C9_Witness ==
    \E p \in Predictors :
        /\ Returned(p) /\ ~dirty[p]
        /\ prev # None /\ prev.p = p /\ ~prev.dirty
        /\ prev.kw = kwargs[p]
        /\ prev.out.kind = "return"
        /\ prev.snap # snap[p]
        /\ out[p] # prev.out

(***************************************************************************)
(* Properties of main                                                      *)
(***************************************************************************)
LastPrinted == stdout[Len(stdout)]

Prompts == {i \in 1..Len(stdout) : stdout[i].msg = "prompt"}

\* C5: every exception the random forest predictor raises, of whatever
\* class, is reported by main with the generic failure message and not with
\* the invalid-number message, and main returns.
C5_PredictorErrorsReportedAsFailure ==
    (mpc \in {"waiting", "returned"} /\ Done("rf") /\ IsRaise(out["rf"])) =>
        /\ ENABLED MainResult \/ mpc = "returned"
        /\ mpc = "returned" => LastPrinted = [msg |-> "failed", error |-> out["rf"]]

\* Text that reads as a number: blanks, an optional sign, one digit or more,
\* blanks.
Numeric(text) ==
    \E i \in 1..Len(text) : \E j \in i..Len(text) :
        /\ \A k \in 1..(i - 1) : text[k] = " "
        /\ \A k \in (j + 1)..Len(text) : text[k] = " "
        /\ \/ \A k \in i..j : IsDigit(text[k])
           \/ (text[i] \in {"-", "+"} /\ i < j /\ \A k \in (i + 1)..j : IsDigit(text[k]))

RECURSIVE Pow10(_)
Pow10(n) == IF n = 0 THEN 1 ELSE 10 * Pow10(n - 1)

RECURSIVE PlaceSum(_, _)
PlaceSum(ds, i) ==
    IF i > Len(ds) THEN 0
    ELSE DigitValue(ds[i]) * Pow10(Len(ds) - i) + PlaceSum(ds, i + 1)

\* The number a numeric text denotes, by place value.
NumberOf(text) ==
    LET ds == SelectSeq(text, IsDigit)
    IN  IF \E k \in 1..Len(text) : text[k] = "-" THEN 0 - PlaceSum(ds, 1) ELSE PlaceSum(ds, 1)

\* C6: the fields are prompted for and parsed one at a time in the fixed
\* order; text that is no number at field k gets the invalid-number message,
\* ends main after k prompts, and the predictor is never called and nothing
\* is read from disk.
C6_InvalidNumberAborts ==
    /\ \A i \in Prompts :
          stdout[i].field = InputKeys[Cardinality({j \in Prompts : j <= i})]
    /\ Len(parsed) <= Len(stdin) /\ Len(stdin) <= Cardinality(Prompts)
    /\ \A k \in 1..Len(stdin) :
          ~Numeric(stdin[k]) =>
              /\ k = Len(stdin)
              /\ Len(parsed) = k - 1
              /\ Cardinality(Prompts) = k
              /\ mpc = "returned"
              /\ LastPrinted = [msg |-> "invalid_number"]
              /\ pc["rf"] = "idle" /\ log["rf"] = << >> /\ kwargs["rf"] = << >>
              /\ pc["skynet"] = "idle" /\ log["skynet"] = << >>

C6_Witness ==
    /\ Len(stdin) = 4
    /\ stdin[4] = << "1", " ", "2" >>
    /\ mpc = "returned"
    /\ Len(parsed) = 3

\* C7: when the six inputs read as numbers, predict_nps_with_rf, and never
\* predict_nps_with_skynet, is called once, after the sixth input, with the
\* i-th number entered as its i-th parameter, and the value it returns is
\* printed with two decimals.
C7_SixNumbersCallRandomForest ==
    /\ pc["skynet"] = "idle" /\ log["skynet"] = << >>
    /\ pc["rf"] # "idle" =>
          /\ Len(stdin) = NParams
          /\ \A k \in 1..NParams : Numeric(stdin[k])
          /\ mpc \in {"waiting", "returned"}
          /\ Cardinality(Calls("rf", "exists")) <= 1
    /\ (Len(stdin) = NParams /\ \A k \in 1..NParams : Numeric(stdin[k])) =>
          /\ mpc \in {"input", "waiting", "returned"}
          /\ mpc = "input" => ENABLED MainCall
          /\ mpc # "input" =>
                /\ pc["rf"] # "idle"
                /\ \A i \in 1..NParams : args["rf"][Params[i]] = NumberOf(stdin[i])
          /\ (mpc = "returned" /\ Returned("rf")) =>
                LastPrinted = [msg |-> "result", text |-> Format2f(out["rf"].value)]
          /\ (mpc = "returned") => Done("rf")

C7_Witness ==
    /\ mpc = "returned"
    /\ Returned("rf")
    /\ stdin = << << "7" >>, << " ", "-", "1", "2", " " >>, << "7" >>, << "7" >>,
                  << " ", "-", "1", "2", " " >>, << "7" >> >>
    /\ parsed = << 7, -12, 7, 7, -12, 7 >>
    /\ LastPrinted.msg = "result"

====
